---- MODULE Spec2Model ----
(***************************************************************************)
(* Style resolution of src/color.rs: the Elem classification, the built-in *)
(* colour table, the optional LsColors override source and the two public  *)
(* entry points colorize and colorize_using_path.                          *)
(*                                                                         *)
(* Option<T> is modelled as a sequence: <<>> is None, <<x>> is Some(x).    *)
(* A call that panics (HashMap index with a missing key) yields <<>> in    *)
(* place of its value and the process is aborted.                          *)
(***************************************************************************)
EXTENDS Integers, Sequences, FiniteSets, TLC

VARIABLES theme, self, call, ret, pc

vars == <<theme, self, call, ret, pc>>

(* ---------------------------- bounds ----------------------------------- *)

\* number of distinct styles the override source may hold
MaxStyles == 2
\* number of indicator codes that carry a style at the same time
MaxRegistered == 1
\* number of distinct paths handed to colorize_using_path
MaxPaths == 1

(* ---------------------------- Option ----------------------------------- *)

None == <<>>
Some(x) == <<x>>
IsSome(o) == Len(o) = 1
Unwrap(o) == o[1]

(* ---------------------------- Elem ------------------------------------- *)

Unit(t) == [tag |-> t, exec |-> FALSE, uid |-> FALSE, valid |-> FALSE]
File(e, u) == [tag |-> "File", exec |-> e, uid |-> u, valid |-> FALSE]
Dir(u) == [tag |-> "Dir", exec |-> FALSE, uid |-> u, valid |-> FALSE]
INode(v) == [tag |-> "INode", exec |-> FALSE, uid |-> FALSE, valid |-> v]

UnitTags ==
    {"SymLink", "BrokenSymLink", "Pipe", "BlockDevice", "CharDevice", "Socket",
     "Special", "Read", "Write", "Exec", "ExecSticky", "NoAccess", "DayOld",
     "HourOld", "Older", "User", "Group", "NonFile", "FileLarge", "FileMedium",
     "FileSmall"}

Elem ==
    {File(e, u) : e \in BOOLEAN, u \in BOOLEAN} \cup {Dir(u) : u \in BOOLEAN}
    \cup {INode(v) : v \in BOOLEAN} \cup {Unit(t) : t \in UnitTags}

has_suid_file_only(elem) == elem.tag = "File" /\ elem.uid

has_suid(elem) ==
    \/ elem.tag = "Dir" /\ elem.uid
    \/ elem.tag = "File" /\ elem.uid

(* ---------------------------- Theme ------------------------------------ *)

Theme == {"NoColor", "Default", "NoLscolors"}

(* ---------------------------- colours and styles ----------------------- *)

\* ansi_term::Colour and lscolors::Color values: <<variant, number>>
Fixed(n) == <<"Fixed", n>>
Purple == <<"Purple", 0>>
Magenta == <<"Magenta", 0>>

\* ansi_term::Style::default()
Style_default == [foreground |-> None, background |-> None, is_bold |-> FALSE]

\* Style::fg
fg(style, colour) == [style EXCEPT !.foreground = Some(colour)]

\* Style::on
on(style, colour) == [style EXCEPT !.background = Some(colour)]

\* Style::paint
paint(style, input) == [style |-> style, string |-> input]

\* lscolors::Color::to_ansi_term_color
to_ansi_term_color(c) == IF c = Magenta THEN Purple ELSE c

\* lscolors::Style::to_ansi_term_style
to_ansi_term_style(s) ==
    [foreground |-> IF IsSome(s.foreground)
                    THEN Some(to_ansi_term_color(Unwrap(s.foreground)))
                    ELSE None,
     background |-> IF IsSome(s.background)
                    THEN Some(to_ansi_term_color(Unwrap(s.background)))
                    ELSE None,
     is_bold |-> s.font_style_bold]

\* the lscolors::Style values an override source may hold
LsStyle(i) ==
    CASE i = 1 -> [foreground |-> Some(Magenta), background |-> None,
                   font_style_bold |-> FALSE]
      [] i = 2 -> [foreground |-> Some(Fixed(4)), background |-> Some(Fixed(124)),
                   font_style_bold |-> TRUE]
      [] i = 3 -> [foreground |-> Some(Fixed(11)), background |-> None,
                   font_style_bold |-> FALSE]
      [] OTHER -> [foreground |-> None, background |-> Some(Magenta),
                   font_style_bold |-> TRUE]

LsStyles == {LsStyle(i) : i \in 1..MaxStyles}

(* ---------------------------- override source -------------------------- *)

\* the indicator codes get_indicator_from_elem can produce
IndicatorCodes == {"fi", "ex", "di", "ln", "pi", "so", "bd", "cd", "or", "no"}

\* Indicator::from
Indicator_from(ids) == IF ids \in IndicatorCodes THEN Some(ids) ELSE None

Paths == 1..MaxPaths
NoPath == 0
Inputs == {"name"}

\* the contents an LsColors value may have: styles by indicator, styles by path
LsColors ==
    {[indicator_mapping |-> m, path_styles |-> p] :
        m \in UNION {[D -> LsStyles] :
                        D \in {S \in SUBSET IndicatorCodes :
                                  Cardinality(S) <= MaxRegistered}},
        p \in [Paths -> {None} \cup {Some(s) : s \in LsStyles}]}

\* LsColors::style_for_indicator
style_for_indicator(lscolors, indicator) ==
    IF indicator \in DOMAIN lscolors.indicator_mapping
    THEN Some(lscolors.indicator_mapping[indicator])
    ELSE None

\* LsColors::style_for_path
style_for_path(lscolors, path) == lscolors.path_styles[path]

(* ---------------------------- built-in table --------------------------- *)

\* HashMap::insert
insert(m, k, v) == [x \in (DOMAIN m) \cup {k} |-> IF x = k THEN v ELSE m[x]]

RECURSIVE InsertAll(_, _)
InsertAll(m, entries) ==
    IF entries = <<>> THEN m
    ELSE InsertAll(insert(m, entries[1][1], entries[1][2]), Tail(entries))

LightThemeEntries ==
    << <<Unit("User"), Fixed(6)>>,
       <<Unit("Group"), Fixed(7)>>,
       <<Unit("Read"), Fixed(2)>>,
       <<Unit("Write"), Fixed(11)>>,
       <<Unit("Exec"), Fixed(9)>>,
       <<Unit("ExecSticky"), Fixed(13)>>,
       <<Unit("NoAccess"), Fixed(7)>>,
       <<File(FALSE, FALSE), Fixed(11)>>,
       <<File(FALSE, TRUE), Fixed(11)>>,
       <<File(TRUE, FALSE), Fixed(2)>>,
       <<File(TRUE, TRUE), Fixed(2)>>,
       <<Dir(TRUE), Fixed(4)>>,
       <<Dir(FALSE), Fixed(4)>>,
       <<Unit("Pipe"), Fixed(6)>>,
       <<Unit("SymLink"), Fixed(6)>>,
       <<Unit("BrokenSymLink"), Fixed(9)>>,
       <<Unit("BlockDevice"), Fixed(6)>>,
       <<Unit("CharDevice"), Fixed(3)>>,
       <<Unit("Socket"), Fixed(6)>>,
       <<Unit("Special"), Fixed(6)>>,
       <<Unit("HourOld"), Fixed(7)>>,
       <<Unit("DayOld"), Fixed(7)>>,
       <<Unit("Older"), Fixed(7)>>,
       <<Unit("NonFile"), Fixed(7)>>,
       <<Unit("FileSmall"), Fixed(3)>>,
       <<Unit("FileMedium"), Fixed(5)>>,
       <<Unit("FileLarge"), Fixed(9)>>,
       <<INode(TRUE), Fixed(13)>>,
       <<INode(FALSE), Fixed(7)>> >>

\* the table with the Special entry left out
get_light_theme_colour_map_no_special ==
    InsertAll(<<>>, SelectSeq(LightThemeEntries, LAMBDA p : p[1] # Unit("Special")))

get_light_theme_colour_map == InsertAll(<<>>, LightThemeEntries)

(* ---------------------------- Colors ----------------------------------- *)

\* a constructor that keeps the table in no-color mode
new_table_always(t, env) ==
    [colors |-> Some(get_light_theme_colour_map),
     lscolors |-> IF t = "Default" THEN Some(env) ELSE None]

\* env is the value of LsColors::from_env().unwrap_or_default()
new(t, env) ==
    [colors |-> CASE t = "NoColor" -> None
                  [] t = "Default" -> Some(get_light_theme_colour_map)
                  [] t = "NoLscolors" -> Some(get_light_theme_colour_map),
     lscolors |-> CASE t = "NoColor" -> None
                    [] t = "Default" -> Some(env)
                    [] t = "NoLscolors" -> None]

\* every classification resolved through its type's indicator, uid or not
get_indicator_from_elem_uid_blind(elem) ==
    LET indicator_string ==
            CASE elem.tag = "File" -> IF elem.exec THEN Some("ex") ELSE Some("fi")
              [] elem.tag = "Dir" -> Some("di")
              [] elem.tag = "SymLink" -> Some("ln")
              [] elem.tag = "Pipe" -> Some("pi")
              [] elem.tag = "Socket" -> Some("so")
              [] elem.tag = "BlockDevice" -> Some("bd")
              [] elem.tag = "CharDevice" -> Some("cd")
              [] elem.tag = "BrokenSymLink" -> Some("or")
              [] elem.tag = "INode" -> IF elem.valid THEN Some("so") ELSE Some("no")
              [] OTHER -> None
    IN  IF IsSome(indicator_string) THEN Indicator_from(Unwrap(indicator_string))
        ELSE None

get_indicator_from_elem(elem) ==
    LET indicator_string ==
            CASE elem.tag = "File" ->
                    IF elem.uid THEN None
                    ELSE IF elem.exec THEN Some("ex") ELSE Some("fi")
              [] elem.tag = "Dir" -> IF elem.uid THEN None ELSE Some("di")
              [] elem.tag = "SymLink" -> Some("ln")
              [] elem.tag = "Pipe" -> Some("pi")
              [] elem.tag = "Socket" -> Some("so")
              [] elem.tag = "BlockDevice" -> Some("bd")
              [] elem.tag = "CharDevice" -> Some("cd")
              [] elem.tag = "BrokenSymLink" -> Some("or")
              [] elem.tag = "INode" -> IF elem.valid THEN Some("so") ELSE Some("no")
              [] OTHER -> None
    IN  IF IsSome(indicator_string) THEN Indicator_from(Unwrap(indicator_string))
        ELSE None

\* style_default that looks a file up without its exec flag
style_default_exec_blind(s, elem) ==
    IF IsSome(s.colors)
    THEN LET colors == Unwrap(s.colors)
             key == IF elem.tag = "File" THEN File(FALSE, elem.uid) ELSE elem
         IN  IF key \notin DOMAIN colors THEN None
             ELSE IF has_suid(elem)
                  THEN Some(on(fg(Style_default, colors[key]), Fixed(124)))
                  ELSE Some(fg(Style_default, colors[key]))
    ELSE Some(Style_default)

\* style_default that sets the highlight on every table colour
style_default_always_on(s, elem) ==
    IF IsSome(s.colors)
    THEN LET colors == Unwrap(s.colors)
         IN  IF elem \notin DOMAIN colors THEN None
             ELSE Some(on(fg(Style_default, colors[elem]), Fixed(124)))
    ELSE Some(Style_default)

\* Some(style), or None when colors[elem] panics on a missing key
style_default(s, elem) ==
    IF IsSome(s.colors)
    THEN LET colors == Unwrap(s.colors)
         IN  IF elem \notin DOMAIN colors THEN None
             ELSE LET style_fg == fg(Style_default, colors[elem])
                  IN  IF has_suid(elem) THEN Some(on(style_fg, Fixed(124)))
                      ELSE Some(style_fg)
    ELSE Some(Style_default)

\* style that falls back to the table when the indicator has no style
style_table_fallback(s, elem) ==
    IF IsSome(s.lscolors) /\ IsSome(get_indicator_from_elem(elem))
          /\ IsSome(style_for_indicator(Unwrap(s.lscolors),
                                        Unwrap(get_indicator_from_elem(elem))))
    THEN Some(to_ansi_term_style(Unwrap(
             style_for_indicator(Unwrap(s.lscolors),
                                 Unwrap(get_indicator_from_elem(elem))))))
    ELSE style_default(s, elem)

\* style that never consults the override source
style_table_only(s, elem) == style_default(s, elem)

style(s, elem) ==
    IF IsSome(s.lscolors)
    THEN LET lscolors == Unwrap(s.lscolors)
             indicator == get_indicator_from_elem(elem)
         IN  IF IsSome(indicator)
             THEN LET st == style_for_indicator(lscolors, Unwrap(indicator))
                  IN  IF IsSome(st) THEN Some(to_ansi_term_style(Unwrap(st)))
                      ELSE Some(Style_default)
             ELSE style_default(s, elem)
    ELSE style_default(s, elem)

style_from_path(s, path) ==
    IF IsSome(s.lscolors)
    THEN LET st == style_for_path(Unwrap(s.lscolors), path)
         IN  IF IsSome(st) THEN Some(to_ansi_term_style(Unwrap(st))) ELSE None
    ELSE None

colorize(s, input, elem) ==
    LET st == style(s, elem)
    IN  IF IsSome(st) THEN Some(paint(Unwrap(st), input)) ELSE None

\* colorize_using_path that adds the highlight to a path style
colorize_using_path_highlight(s, input, path, elem) ==
    LET sp == style_from_path(s, path)
    IN  IF IsSome(sp)
        THEN Some(paint(IF has_suid(elem) THEN on(Unwrap(sp), Fixed(124))
                        ELSE Unwrap(sp), input))
        ELSE colorize(s, input, elem)

\* colorize_using_path that goes straight to the table on a path miss
colorize_using_path_skip_indicator(s, input, path, elem) ==
    LET sp == style_from_path(s, path)
        sd == style_default(s, elem)
    IN  IF IsSome(sp) THEN Some(paint(Unwrap(sp), input))
        ELSE IF IsSome(sd) THEN Some(paint(Unwrap(sd), input)) ELSE None

colorize_using_path(s, input, path, elem) ==
    LET sp == style_from_path(s, path)
    IN  IF IsSome(sp) THEN Some(paint(Unwrap(sp), input))
        ELSE colorize(s, input, elem)

(* ---------------------------- state machine ---------------------------- *)

NoCall == [op |-> "none", input |-> "", path |-> NoPath, elem |-> Unit("Special")]

Init ==
    /\ theme \in Theme
    /\ \E env \in LsColors : self = new(theme, env)
    /\ call = NoCall
    /\ ret = None
    /\ pc = "idle"

Colorize ==
    /\ pc # "aborted"
    /\ \E input \in Inputs, elem \in Elem :
          /\ call' = [op |-> "colorize", input |-> input, path |-> NoPath,
                      elem |-> elem]
          /\ ret' = colorize(self, input, elem)
          /\ pc' = IF IsSome(colorize(self, input, elem)) THEN "returned"
                   ELSE "aborted"
    /\ UNCHANGED <<theme, self>>

ColorizeUsingPath ==
    /\ pc # "aborted"
    /\ \E input \in Inputs, path \in Paths, elem \in Elem :
          /\ call' = [op |-> "colorize_using_path", input |-> input,
                      path |-> path, elem |-> elem]
          /\ ret' = colorize_using_path(self, input, path, elem)
          /\ pc' = IF IsSome(colorize_using_path(self, input, path, elem))
                   THEN "returned" ELSE "aborted"
    /\ UNCHANGED <<theme, self>>

Next == Colorize \/ ColorizeUsingPath

Spec == Init /\ [][Next]_vars

(* ---------------------------- properties ------------------------------- *)

Returned == pc = "returned" /\ IsSome(ret)
Result == Unwrap(ret)
Highlight == Some(Fixed(124))

\* Dir{uid:true} and File{uid:true, exec:any}
SuidElem(e) == e.tag \in {"Dir", "File"} /\ e.uid

\* the classifications that have an indicator code
CodedElem(e) ==
    \/ e.tag \in {"File", "Dir"} /\ ~e.uid
    \/ e.tag \in {"SymLink", "Pipe", "Socket", "BlockDevice", "CharDevice",
                  "BrokenSymLink", "INode"}

\* the style the override source registers for the call's indicator code
IndicatorStyle ==
    IF IsSome(self.lscolors) /\ IsSome(get_indicator_from_elem(call.elem))
    THEN style_for_indicator(Unwrap(self.lscolors),
                             Unwrap(get_indicator_from_elem(call.elem)))
    ELSE None

\* the style the override source has for the call's path
PathStyle ==
    IF IsSome(self.lscolors) /\ call.path \in Paths
    THEN style_for_path(Unwrap(self.lscolors), call.path)
    ELSE None

TableStyle(e) ==
    [foreground |-> Some(get_light_theme_colour_map[e]),
     background |-> IF SuidElem(e) THEN Highlight ELSE None,
     is_bold |-> FALSE]

\* C1 (as stated): in default mode, colorize of a classification with an
\* indicator code that the override source has no style for returns a style
\* whose foreground is the built-in table's colour of the classification.
C1_Original ==
    (Returned /\ theme = "Default" /\ call.op = "colorize" /\ CodedElem(call.elem)
        /\ IndicatorStyle = None)
    => Result.style.foreground = Some(get_light_theme_colour_map[call.elem])

\* C1 (amended): in default mode, colorize of a classification with an
\* indicator code that the override source has no style for returns the
\* default style (no foreground, no background); the table is not consulted.
C1_Amended ==
    (Returned /\ theme = "Default" /\ call.op = "colorize" /\ CodedElem(call.elem)
        /\ IndicatorStyle = None)
    => Result = paint(Style_default, call.input)

C1_Witness ==
    /\ Returned /\ theme = "Default" /\ call.op = "colorize"
    /\ call.elem = File(FALSE, FALSE)
    /\ "fi" \notin DOMAIN Unwrap(self.lscolors).indicator_mapping
    /\ Result.style = Style_default

\* C2: in default mode, colorize of a setuid/setgid classification returns the
\* table colour with the Fixed(124) background, whatever the override source
\* registers for its indicators.
C2_SuidIgnoresIndicators ==
    (Returned /\ theme = "Default" /\ call.op = "colorize" /\ SuidElem(call.elem))
    => Result = paint(TableStyle(call.elem), call.input)

C2_Witness ==
    /\ Returned /\ theme = "Default" /\ call.op = "colorize"
    /\ call.elem = Dir(TRUE)
    /\ "di" \in DOMAIN Unwrap(self.lscolors).indicator_mapping
    /\ Result.style.background = Highlight

\* C3 (as stated): in every colored mode, the result of colorize and of
\* colorize_using_path carries the Fixed(124) background whenever the
\* classification is setuid/setgid, whichever source gave the foreground.
C3_Original ==
    (Returned /\ theme # "NoColor" /\ SuidElem(call.elem))
    => Result.style.background = Highlight

\* C3 (amended): in every colored mode, the result carries the Fixed(124)
\* background whenever the classification is setuid/setgid and the call is
\* colorize, or colorize_using_path with a path the override source has no
\* style for.
C3_Amended ==
    (Returned /\ theme # "NoColor" /\ SuidElem(call.elem) /\ PathStyle = None)
    => Result.style.background = Highlight

C3_Witness ==
    /\ Returned /\ theme = "Default" /\ call.op = "colorize_using_path"
    /\ PathStyle = None
    /\ call.elem = File(TRUE, TRUE)
    /\ Result.style.background = Highlight

\* C4: a style resolved with no override applying (table-only mode, or default
\* mode with no path style and no indicator style) has the Fixed(124)
\* background if and only if the classification is Dir{uid:true} or
\* File{uid:true}.
C4_HighlightIffSuid ==
    (Returned /\ (theme = "NoLscolors"
                    \/ (theme = "Default" /\ PathStyle = None
                          /\ IndicatorStyle = None)))
    => ((Result.style.background = Highlight) <=> SuidElem(call.elem))

C4_Witness ==
    /\ Returned /\ theme = "NoLscolors" /\ call.op = "colorize"
    /\ call.elem = File(FALSE, TRUE)
    /\ Result.style.background = Highlight

\* C5: in default mode, colorize_using_path with a path the override source
\* has a style for returns exactly that style, whatever the classification.
C5_PathStyleWins ==
    (Returned /\ theme = "Default" /\ call.op = "colorize_using_path"
        /\ IsSome(PathStyle))
    => Result = paint(to_ansi_term_style(Unwrap(PathStyle)), call.input)

C5_Witness ==
    /\ Returned /\ theme = "Default" /\ call.op = "colorize_using_path"
    /\ PathStyle = Some(LsStyle(1))
    /\ call.elem = Dir(TRUE)
    /\ Result.style.background = None

\* C6: in every mode, colorize_using_path with a path the override source has
\* no style for returns what colorize returns for the same text and
\* classification.
C6_PathMissEqualsColorize ==
    (pc # "idle" /\ call.op = "colorize_using_path" /\ PathStyle = None)
    => ret = colorize(self, call.input, call.elem)

C6_Witness ==
    /\ Returned /\ theme = "Default" /\ call.op = "colorize_using_path"
    /\ PathStyle = None
    /\ call.elem = Dir(FALSE)
    /\ IsSome(IndicatorStyle)

\* C7: in no-color mode every call returns the unstyled default style.
C7_NoColorPlain ==
    (pc # "idle" /\ theme = "NoColor")
    => (Returned /\ Result = paint(Style_default, call.input))

C7_Witness ==
    /\ Returned /\ theme = "NoColor" /\ call.op = "colorize_using_path"
    /\ call.elem = Dir(TRUE)
    /\ Result.style = Style_default

\* C8: in default mode, colorize of a classification whose indicator code has
\* a registered style returns exactly that style: no highlight added, no
\* table colour used.
C8_IndicatorStyleVerbatim ==
    (Returned /\ theme = "Default" /\ call.op = "colorize" /\ CodedElem(call.elem)
        /\ IsSome(IndicatorStyle))
    => Result = paint(to_ansi_term_style(Unwrap(IndicatorStyle)), call.input)

C8_Witness ==
    /\ Returned /\ theme = "Default" /\ call.op = "colorize"
    /\ call.elem = Dir(FALSE)
    /\ IndicatorStyle = Some(LsStyle(1))
    /\ Result.style = [foreground |-> Some(Purple), background |-> None,
                       is_bold |-> FALSE]

\* C9: in table-only mode, colorize of every classification returns a style
\* whose foreground is the built-in table's entry for it.
C9_TableOnlyForeground ==
    (pc # "idle" /\ theme = "NoLscolors" /\ call.op = "colorize")
    => (Returned
          /\ Result.style.foreground = Some(get_light_theme_colour_map[call.elem]))

C9_Witness ==
    /\ Returned /\ theme = "NoLscolors" /\ call.op = "colorize"
    /\ call.elem = File(TRUE, FALSE)
    /\ Result.style.foreground = Some(Fixed(2))

\* C10: no call aborts: every call returns a value, and the table, when
\* present, has an entry for every classification.
C10_Total ==
    /\ pc # "aborted"
    /\ pc # "idle" => IsSome(ret)
    /\ IsSome(self.colors) => Elem \subseteq DOMAIN Unwrap(self.colors)

C10_Witness ==
    /\ Returned /\ theme = "NoLscolors" /\ call.op = "colorize"
    /\ call.elem = Unit("Special")
    /\ Result.style.foreground = Some(Fixed(6))

====
